---- MODULE Spec2Model ----
(***************************************************************************)
(* Animation Scene Validator (anim_validator): the checks of checks.py,    *)
(* the ValidatorWindow handlers of app.py and run_in_maya.show, over a     *)
(* small host scene graph.                                                 *)
(*                                                                         *)
(* Host scene: a finite universe of DAG nodes (long names), the set that   *)
(* currently exists, the connections into camera .imagePlane plugs, clip   *)
(* planes, key times, playback range, selection, locked nodes, version.    *)
(* Times are fixed-point: TicksPerFrame ticks make one frame, so that      *)
(* int() truncation and the 0.001 tolerance of the handle test are         *)
(* computed as the code computes them.                                     *)
(***************************************************************************)
EXTENDS Integers, Sequences, FiniteSets, TLC

VARIABLES
    scene,       \* the host scene graph (record, see Scene below)
    issues,      \* ValidatorWindow.issues: check_id -> Issue, or NoIssue
    rows,        \* the table rows: check_id -> [status, count, fix]
    header,      \* status_lbl text
    detail,      \* detail_msg text and the items of the nodes list widget
    fixEnabled,  \* fix_sel_btn.isEnabled()
    selEnabled,  \* select_nodes_btn.isEnabled()
    current,     \* check_id of the table's current item
    logged,      \* lines appended to the log widget by the latest handler
    last,        \* history: what the latest handler did
    steps,       \* history: number of handler invocations so far
    win          \* run_in_maya: _WINDOW and the windows it created

vars == <<scene, issues, rows, header, detail, fixEnabled, selEnabled,
          current, logged, last, steps, win>>

uiVars == <<issues, rows, header, detail, fixEnabled, selEnabled, current>>

-----------------------------------------------------------------------------
(* Bounds of the model *)

\* handler invocations explored from the initial state
MaxSteps == 3


-----------------------------------------------------------------------------
(* Program constants *)

ShotStart == 101
ShotEnd == 131
Handle == 5
RequiredMajor == 2025
\* near_max = 1.0 and far_min = 5000.0, in tenths
NearMax == 10
FarMin == 50000
\* fixed-point time: 0.001 frame is KeyTolerance ticks
TicksPerFrame == 2000
KeyTolerance == 2

Frame(f) == f * TicksPerFrame

-----------------------------------------------------------------------------
(* The node universe: long names, and what the host knows of each *)

NodeOrder ==
    << "|bad#name@NODE",
       "|camA", "|camA|camAShape",
       "|camB", "|camB|camBShape", "|camB|camBShape2",
       "|ip1", "|ip2->ip2Shape", "|ipDemo",
       "|persp", "|persp|perspShape",
       "|rig:ctrl",
       "|validator_demo_cam", "|validator_demo_cam|validator_demo_camShape" >>

Universe == { NodeOrder[i] : i \in 1..Len(NodeOrder) }

NodeType(n) ==
    CASE n \in {"|camA|camAShape", "|camB|camBShape", "|camB|camBShape2",
                "|persp|perspShape",
                "|validator_demo_cam|validator_demo_camShape"} -> "camera"
      [] n \in {"|ip1", "|ip2->ip2Shape", "|ipDemo"} -> "imagePlane"
      [] OTHER -> "transform"

CameraShapes == { n \in Universe : NodeType(n) = "camera" }

\* n.split("|")[-1], as characters
ShortName(n) ==
    CASE n = "|bad#name@NODE" -> <<"b","a","d","#","n","a","m","e","@","N","O","D","E">>
      [] n = "|camA" -> <<"c","a","m","A">>
      [] n = "|camA|camAShape" -> <<"c","a","m","A","S","h","a","p","e">>
      [] n = "|camB" -> <<"c","a","m","B">>
      [] n = "|camB|camBShape" -> <<"c","a","m","B","S","h","a","p","e">>
      [] n = "|camB|camBShape2" -> <<"c","a","m","B","S","h","a","p","e","2">>
      [] n = "|rig:ctrl" -> <<"r","i","g",":","c","t","r","l">>
      [] n = "|ip1" -> <<"i","p","1">>
      [] n = "|ip2->ip2Shape" -> <<"i","p","2","-",">","i","p","2","S","h","a","p","e">>
      [] n = "|ipDemo" -> <<"i","p","D","e","m","o">>
      [] n = "|persp" -> <<"p","e","r","s","p">>
      [] n = "|persp|perspShape" -> <<"p","e","r","s","p","S","h","a","p","e">>
      [] n = "|validator_demo_cam" -> <<"v","a","l","i","d","a","t","o","r","_","d","e","m","o","_","c","a","m">>
      [] OTHER -> <<"v","a","l","i","d","a","t","o","r","_","d","e","m","o","_","c","a","m","S","h","a","p","e">>

\* cmds.listRelatives(shape, parent=True, fullPath=True)[0]
ParentOf(n) ==
    CASE n = "|camA|camAShape" -> "|camA"
      [] n \in {"|camB|camBShape", "|camB|camBShape2"} -> "|camB"
      [] n = "|persp|perspShape" -> "|persp"
      [] n = "|validator_demo_cam|validator_demo_camShape" -> "|validator_demo_cam"
      [] OTHER -> n

\* the place of a long name in the sort order
IndexOf(n) == CHOOSE i \in 1..Len(NodeOrder) : NodeOrder[i] = n

\* the DAG children of a transform
ChildrenOf(n) == { c \in Universe : c # n /\ ParentOf(c) = n }

\* sorted(list(set(S))) over long names
RECURSIVE SortedFrom(_, _)
SortedFrom(S, i) ==
    IF i > Len(NodeOrder) THEN << >>
    ELSE IF NodeOrder[i] \in S THEN <<NodeOrder[i]>> \o SortedFrom(S, i + 1)
    ELSE SortedFrom(S, i + 1)

Sorted(S) == SortedFrom(S, 1)

Range(s) == { s[i] : i \in 1..Len(s) }

-----------------------------------------------------------------------------
(* Host queries *)

\* cmds.objExists(n)
ObjExists(sc, n) == n \in sc.nodes

\* cmds.ls(type="camera", long=True)
LsCameras(sc) == CameraShapes \cap sc.nodes

\* cmds.listConnections(shape + ".imagePlane", source=True, destination=False)
ImagePlaneSources(sc, shape) == { c[1] : c \in { d \in sc.conn : d[2] = shape } }

DefaultCameraNames ==
    { <<"p","e","r","s","p">>, <<"t","o","p">>, <<"f","r","o","n","t">>, <<"s","i","d","e">> }

_is_default_maya_camera(cam_tr) == ShortName(cam_tr) \in DefaultCameraNames

\* the camera shapes of the universe whose transform is not a default camera
NonDefaultShapes == { s \in CameraShapes : ~_is_default_maya_camera(ParentOf(s)) }

\* the first camera shape under a transform (the children in the order the
\* host lists them), or "" for None; raises when the transform does not
\* exist (see FixFrom)
_camera_shape_from_transform(sc, cam_tr) ==
    LET shapes == { s \in ChildrenOf(cam_tr) \cap sc.nodes : NodeType(s) = "camera" }
    IN IF shapes = {} THEN ""
       ELSE CHOOSE s \in shapes : \A t \in shapes : IndexOf(s) <= IndexOf(t)

\* int(x) of a time held in ticks: truncation toward zero, in frames
IntTrunc(t) == IF t >= 0 THEN t \div TicksPerFrame ELSE -((-t) \div TicksPerFrame)

Abs(x) == IF x < 0 THEN -x ELSE x

\* the key times on translate/rotate of a node
_list_key_times(sc, n) == sc.keys[n]

-----------------------------------------------------------------------------
(* Issue and the five checks (checks.py) *)

CheckIds ==
    << "camera_imageplane", "invalid_naming", "maya_version",
       "frame_range_handles", "camera_clipping" >>

CheckSet == Range(CheckIds)

Title(c) ==
    CASE c = "camera_imageplane" -> "Camera ImagePlanes"
      [] c = "invalid_naming" -> "Invalid Naming Characters"
      [] c = "maya_version" -> "Maya Version Compliance"
      [] c = "frame_range_handles" -> "Frame Range & Handles"
      [] OTHER -> "Camera Clipping Planes"

\* the class attribute severity of each check
Severity(c) == IF c = "camera_imageplane" THEN "ERROR" ELSE "WARN"

\* a message: its fixed text k, and what the f-string interpolates
Msg(k, exc, a, b) == [k |-> k, exc |-> exc, a |-> a, b |-> b]

Text(k) == Msg(k, "", 0, 0)

Issue(check_id, severity, message, nodes, fixable) ==
    [check_id |-> check_id, title |-> Title(check_id), severity |-> severity,
     message |-> message, nodes |-> nodes, fixable |-> fixable]

\* issues.get(check_id) is None
NoIssue ==
    [check_id |-> "", title |-> "", severity |-> "", message |-> Text(""),
     nodes |-> << >>, fixable |-> FALSE]

OkIssue(check_id, fixable) == Issue(check_id, "OK", Text("OK"), << >>, fixable)

\* cameras whose transform is not a default camera and that have a source
\* connected to .imagePlane
BadImagePlaneCameras(sc) ==
    { ParentOf(cs) : cs \in { s \in LsCameras(sc) \cap NonDefaultShapes :
          ImagePlaneSources(sc, s) # {} } }

CameraImagePlaneRun(sc) ==
    LET bad == BadImagePlaneCameras(sc)
    IN IF bad # {}
       THEN Issue("camera_imageplane", Severity("camera_imageplane"),
                  Text("Some cameras have ImagePlanes connected."), Sorted(bad), TRUE)
       ELSE OkIssue("camera_imageplane", TRUE)

Letters ==
    { "a","b","c","d","e","f","g","h","i","j","k","l","m","n","o","p","q","r","s",
      "t","u","v","w","x","y","z",
      "A","B","C","D","E","F","G","H","I","J","K","L","M","N","O","P","Q","R","S",
      "T","U","V","W","X","Y","Z" }

Digits == { "0","1","2","3","4","5","6","7","8","9" }

\* re.compile(r"^[a-z0-9_|:]+$", re.IGNORECASE).search(short)
AllowedChars == Letters \cup Digits \cup {"_", "|", ":"}

PatternMatches(short) ==
    /\ Len(short) >= 1
    /\ \A i \in 1..Len(short) : short[i] \in AllowedChars

\* the names of the universe the pattern rejects
RejectedNames == { n \in Universe : ~PatternMatches(ShortName(n)) }

\* variant: image planes are not exempt
InvalidNamingBadWithImagePlanes(sc) == sc.nodes \cap RejectedNames

\* an image plane is listed by the host as transform->shape and is exempt
InvalidNamingBad(sc) ==
    { n \in sc.nodes \cap RejectedNames : NodeType(n) # "imagePlane" }

InvalidNamingRun(sc) ==
    LET bad == InvalidNamingBad(sc)
    IN IF bad # {}
       THEN Issue("invalid_naming", Severity("invalid_naming"),
                  Text("Found nodes with invalid characters in their names."),
                  Sorted(bad), FALSE)
       ELSE OkIssue("invalid_naming", FALSE)

\* int(str(v).split()[0]), or -1 for None; a version is its whitespace-split
\* tokens, each an integer literal or not
VersionMajor(v) ==
    IF Len(v) = 0 THEN -1
    ELSE IF v[1].isInt THEN v[1].val ELSE -1

MayaVersionRun(sc) ==
    LET major == VersionMajor(sc.version)
    IN IF major # RequiredMajor
       THEN Issue("maya_version", Severity("maya_version"),
                  Msg("Running Maya {v}. Recommended: Maya {required}.", "", major, RequiredMajor),
                  << >>, FALSE)
       ELSE OkIssue("maya_version", FALSE)

ExpMin == ShotStart - Handle
ExpMax == ShotEnd + Handle

\* selection if any, otherwise the transforms of the non-default cameras
FrameRangeTargets(sc) ==
    IF sc.sel # {} THEN sc.sel
    ELSE { ParentOf(cs) : cs \in LsCameras(sc) \cap NonDefaultShapes }

\* any(abs(t - exp) < 0.001 for t in times)
HasKeyNear(times, expFrame) ==
    \E t \in times : Abs(t - Frame(expFrame)) < KeyTolerance

FrameRangeMissing(sc) ==
    { n \in FrameRangeTargets(sc) :
        /\ ObjExists(sc, n)
        /\ \/ _list_key_times(sc, n) = {}
           \/ ~(HasKeyNear(_list_key_times(sc, n), ExpMin)
                /\ HasKeyNear(_list_key_times(sc, n), ExpMax)) }

FrameRangeRun(sc) ==
    LET pb_min == IntTrunc(sc.pbMin)
        pb_max == IntTrunc(sc.pbMax)
        problems == (pb_min # ExpMin \/ pb_max # ExpMax)
        missing == FrameRangeMissing(sc)
    IN IF problems \/ missing # {}
       THEN Issue("frame_range_handles", Severity("frame_range_handles"),
                  IF problems
                  THEN Msg("Playback range is {pb_min}-{pb_max} (expected).", "", pb_min, pb_max)
                  ELSE Text("Missing handle keys on targets."),
                  Sorted(missing), FALSE)
       ELSE OkIssue("frame_range_handles", FALSE)

\* variant: the thresholds themselves are reported
CameraClippingBadInclusive(sc) ==
    { ParentOf(cs) : cs \in { s \in (LsCameras(sc) \cap NonDefaultShapes) \ sc.unreadable :
          sc.near[s] >= NearMax \/ sc.far[s] <= FarMin } }

\* a camera whose getAttr raises is skipped (except: continue)
CameraClippingBad(sc) ==
    { ParentOf(cs) : cs \in { s \in (LsCameras(sc) \cap NonDefaultShapes) \ sc.unreadable :
          sc.near[s] > NearMax \/ sc.far[s] < FarMin } }

CameraClippingRun(sc) ==
    LET bad == CameraClippingBad(sc)
    IN IF bad # {}
       THEN Issue("camera_clipping", Severity("camera_clipping"),
                  Text("Some cameras have risky clipping planes."), Sorted(bad), FALSE)
       ELSE OkIssue("camera_clipping", FALSE)

\* variant: FrameRangeHandlesCheck.run calls playbackOptions(min=True) without
\* q=True, which sets the playback minimum
SceneAfterRunEditsRange(c, sc) ==
    IF c = "frame_range_handles" THEN [sc EXCEPT !.pbMin = Frame(1)] ELSE sc

\* the scene after check.run(): every host call of the five run methods is a
\* query (ls, listRelatives, listConnections, nodeType, getAttr, about,
\* playbackOptions(q=True), keyframe(q=True), objExists)
SceneAfterRun(c, sc) == sc

\* check.run() for the check with this id, when no host call raises
Run(c, sc) ==
    CASE c = "camera_imageplane" -> CameraImagePlaneRun(sc)
      [] c = "invalid_naming" -> InvalidNamingRun(sc)
      [] c = "maya_version" -> MayaVersionRun(sc)
      [] c = "frame_range_handles" -> FrameRangeRun(sc)
      [] OTHER -> CameraClippingRun(sc)

-----------------------------------------------------------------------------
(* Host mutations *)

DefaultNear == 1
DefaultFar == 100000

\* cmds.delete of a set of nodes: they, their connections, their keys and
\* their place in the selection go
DeleteNodes(sc, gone) ==
    [sc EXCEPT !.nodes = @ \ gone,
               !.conn = { d \in @ : d[1] \notin gone /\ d[2] \notin gone },
               !.sel = @ \ gone,
               !.locked = @ \ gone,
               !.unreadable = @ \ gone,
               !.frozen = { pl \in @ : pl[1] \notin gone },
               !.keys = [n \in Universe |-> IF n \in gone THEN {} ELSE @[n]],
               !.near = [s \in CameraShapes |-> IF s \in gone THEN DefaultNear ELSE @[s]],
               !.far = [s \in CameraShapes |-> IF s \in gone THEN DefaultFar ELSE @[s]]]

\* what listRelatives raises for a transform that is gone
NoObjectMatches == "No object matches name"

\* CameraImagePlaneCheck.fix from the i-th reported camera on: the scene it
\* leaves, whether it changed anything, and the exception it raised ("" if none).
\* cmds.delete of a locked node raises and is skipped.
RECURSIVE FixFrom(_, _, _, _)
FixFrom(i, cams, sc, changed) ==
    IF i > Len(cams) THEN [scene |-> sc, changed |-> changed, raised |-> ""]
    ELSE IF ~ObjExists(sc, cams[i])
    THEN [scene |-> sc, changed |-> changed, raised |-> NoObjectMatches]
    ELSE LET cam_shape == _camera_shape_from_transform(sc, cams[i])
             planes == IF cam_shape = "" THEN {} ELSE ImagePlaneSources(sc, cam_shape)
             deleted == planes \ sc.locked
         IN FixFrom(i + 1, cams, DeleteNodes(sc, deleted), changed \/ deleted # {})

\* variant: every image plane of the scene is deleted
CameraImagePlaneFixDeletesAll(issue, sc) ==
    LET planes == { n \in sc.nodes : NodeType(n) = "imagePlane" } \ sc.locked
    IN [scene |-> DeleteNodes(sc, planes), changed |-> planes # {}, raised |-> ""]

CameraImagePlaneFix(issue, sc) == FixFrom(1, issue.nodes, sc, FALSE)

\* check.fix(issue): only CameraImagePlaneCheck overrides BaseCheck.fix
Fix(c, issue, sc) ==
    IF c = "camera_imageplane" THEN CameraImagePlaneFix(issue, sc)
    ELSE [scene |-> sc, changed |-> FALSE, raised |-> ""]

-----------------------------------------------------------------------------
(* ValidatorWindow (app.py) *)

\* one line of the log widget
Line(k, sev, title, n, exc) == [k |-> k, sev |-> sev, title |-> title, n |-> n, exc |-> exc]

\* str(n)
Str(n) == <<"0", "1", "2", "3", "4", "5", "6", "7", "8", "9">>[n + 1]

Dash == "-"

\* variant: every stored result is counted as ok
HeaderCountsAllAsOk(iss) ==
    LET stored == { c \in CheckSet : iss[c] # NoIssue }
    IN [k |-> IF stored # {} THEN "counts" ELSE "ready",
        n |-> IF stored # {} THEN Cardinality(stored) ELSE Len(CheckIds),
        err |-> 0, warn |-> 0, ok |-> IF stored # {} THEN Cardinality(stored) ELSE 0]

_refresh_header(iss) ==
    LET stored == { c \in CheckSet : iss[c] # NoIssue }
        count(sev) == Cardinality({ c \in stored : iss[c].severity = sev })
    IN IF stored # {}
       THEN [k |-> "counts", n |-> Cardinality(stored), err |-> count("ERROR"),
             warn |-> count("WARN"), ok |-> count("OK")]
       ELSE [k |-> "ready", n |-> Len(CheckIds), err |-> 0, warn |-> 0, ok |-> 0]

_set_row_for_issue(rws, issue) ==
    [rws EXCEPT ![issue.check_id] =
        [status |-> IF issue.severity = "OK" THEN "OK" ELSE issue.severity,
         count |-> IF issue.severity = "OK" THEN "0" ELSE Str(Len(issue.nodes)),
         fix |-> IF issue.fixable THEN "Yes" ELSE Dash]]

\* variant: Fix Selected is enabled for any result with nodes
RenderDetailsFixForAnyNodes(issue) ==
    IF issue = NoIssue
    THEN [msg |-> Text("Select a check and run it."), sev |-> "", nodes |-> << >>,
          fix |-> FALSE, sel |-> FALSE]
    ELSE IF issue.severity = "OK"
    THEN [msg |-> Text("OK"), sev |-> "OK", nodes |-> << >>, fix |-> FALSE, sel |-> FALSE]
    ELSE [msg |-> issue.message, sev |-> issue.severity, nodes |-> issue.nodes,
          fix |-> (issue.nodes # << >>), sel |-> (issue.nodes # << >>)]

\* detail_msg, the nodes list and the two buttons
_render_details(issue) ==
    IF issue = NoIssue
    THEN [msg |-> Text("Select a check and run it."), sev |-> "", nodes |-> << >>,
          fix |-> FALSE, sel |-> FALSE]
    ELSE IF issue.severity = "OK"
    THEN [msg |-> Text("OK"), sev |-> "OK", nodes |-> << >>, fix |-> FALSE, sel |-> FALSE]
    ELSE [msg |-> issue.message, sev |-> issue.severity, nodes |-> issue.nodes,
          fix |-> (issue.fixable /\ issue.nodes # << >>),
          sel |-> (issue.nodes # << >>)]

\* variant: the fallback Issue takes the severity of the check's class
FailedIssueClassSeverity(c, exc) ==
    Issue(c, Severity(c), Msg("Check failed: ", exc, 0, 0), << >>, FALSE)

\* variant: the fallback Issue keeps the nodes of the result stored before
FailedIssueKeepsNodes(c, exc) ==
    Issue(c, "ERROR", Msg("Check failed: ", exc, 0, 0), issues[c].nodes, FALSE)

\* the Issue _run_check builds when check.run() raised exc
FailedIssue(c, exc) == Issue(c, "ERROR", Msg("Check failed: ", exc, 0, 0), << >>, FALSE)

\* the try/except of _run_check: exc[c] is the message of the exception
\* check.run() raises this time, "" when it returns
RunOrFail(c, sc, exc) == IF exc[c] # "" THEN FailedIssue(c, exc[c]) ELSE Run(c, sc)

\* _run_check: st carries issues and rows
_run_check(st, c, sc, exc) ==
    [issues |-> [st.issues EXCEPT ![c] = RunOrFail(c, sc, exc)],
     rows |-> _set_row_for_issue(st.rows, RunOrFail(c, sc, exc)),
     issue |-> RunOrFail(c, sc, exc)]

\* the line _on_run_all logs for one check
RunAllLine(c, issue) ==
    IF issue.severity = "OK"
    THEN Line("{title}: OK", "", Title(c), 0, "")
    ELSE Line("{severity}: {title} - {n} item(s)", issue.severity, Title(c),
              Len(issue.nodes), "")

\* variant: the loop starts at the second check
RunAllOrderSkipsFirst == Tail(CheckIds)

\* for c in self.checks
RunAllOrder == CheckIds

\* the scene after the run() calls of the checks order[i..]
RECURSIVE SceneAfterRuns(_, _, _)
SceneAfterRuns(order, i, sc) ==
    IF i > Len(order) THEN sc
    ELSE SceneAfterRuns(order, i + 1, SceneAfterRun(order[i], sc))

\* variant: the guard does not look at issue.fixable
FixRefusedIgnoresFixable(issue) == issue = NoIssue \/ issue.nodes = << >>

\* the guard of _on_fix_selected: it returns before calling fix()
FixRefused(issue) == issue = NoIssue \/ ~issue.fixable \/ issue.nodes = << >>

\* variant: the line does not interpolate the exception
FixErrorLineWithoutMessage(e) == Line("ERROR during fix", "", "", 0, "")

\* what _on_fix_selected logs when fix() raised e
FixErrorLine(e) == Line("ERROR during fix: {e}", "", "", 0, e)

\* variant: the result stored before the fix is shown again, run() is not called
RerunAfterFixSkipped(st, c, sc, exc) ==
    [issues |-> st.issues, rows |-> st.rows, issue |-> st.issues[c]]

\* "Re-run selected": the _run_check that follows a fix
RerunAfterFix(st, c, sc, exc) == _run_check(st, c, sc, exc)

\* the loop of _on_run_all: _run_check and one log line per check, in order.
\* The check ids are distinct and run() leaves the scene alone, so the
\* iterations do not feed each other and the loop is the per-check results
\* laid over what was stored; st carries issues, rows and the lines logged.
RunAllLoop(st, sc, exc) ==
    LET order == RunAllOrder
        res == [c \in Range(order) |-> _run_check(st, c, sc, exc)]
    IN [issues |-> [c \in CheckSet |->
                       IF c \in Range(order) THEN res[c].issue ELSE st.issues[c]],
        rows |-> [c \in CheckSet |->
                       IF c \in Range(order) THEN res[c].rows[c] ELSE st.rows[c]],
        log |-> st.log \o [i \in 1..Len(order) |-> RunAllLine(order[i], res[order[i]].issue)],
        ran |-> order]

-----------------------------------------------------------------------------
(* Initial scenes *)

BaseNodes ==
    { "|persp", "|persp|perspShape", "|camA", "|camA|camAShape",
      "|camB", "|camB|camBShape", "|ip1", "|ip2->ip2Shape", "|rig:ctrl" }

HandleKeys == { Frame(ExpMin), Frame(ExpMax) }

NoKeys == [n \in Universe |-> {}]

BaseKeys == [NoKeys EXCEPT !["|camA"] = HandleKeys, !["|camB"] = HandleKeys]

Version(major) == << [isInt |-> TRUE, val |-> major] >>

BaseScene ==
    [nodes |-> BaseNodes,
     conn |-> {},
     near |-> [s \in CameraShapes |-> DefaultNear],
     far |-> [s \in CameraShapes |-> DefaultFar],
     keys |-> BaseKeys,
     pbMin |-> Frame(ExpMin),
     pbMax |-> Frame(ExpMax),
     sel |-> {},
     locked |-> {},
     unreadable |-> {},
     frozen |-> {},
     version |-> Version(RequiredMajor)]

\* image planes: one per camera; one shared with a default camera (which has
\* another of its own); two on one camera
PerCamera == { <<"|ip1", "|camA|camAShape">>, <<"|ip2->ip2Shape", "|camB|camBShape">> }
SharedWithPersp ==
    { <<"|ip1", "|camA|camAShape">>, <<"|ip1", "|persp|perspShape">>,
      <<"|ip2->ip2Shape", "|persp|perspShape">> }
TwoOnOne == { <<"|ip1", "|camA|camAShape">>, <<"|ip2->ip2Shape", "|camA|camAShape">> }

\* key times of a target: a handle within, or just outside, the tolerance;
\* one handle only; the shot range only
KeysWithinTolerance == { Frame(ExpMin) + 1, Frame(ExpMax) - 1 }
KeysOutsideTolerance == { Frame(ExpMin) + KeyTolerance, Frame(ExpMax) }
KeysPreOnly == { Frame(ExpMin) }
KeysShotOnly == { Frame(ShotStart), Frame(ShotEnd) }

HalfFrame == TicksPerFrame \div 2

\* camB's clip planes cannot be read (getAttr raises) in one scene; in two
\* others a camera plug is frozen (locked): connectAttr or setAttr on it raises.
\* a scene: the image plane connections, the locked nodes, the keys of camA,
\* the playback range, the clip planes of camA (tenths) and the version
Scene(conn, locked, keysA, pbMin, pbMax, near, far, version) ==
    [BaseScene EXCEPT !.conn = conn, !.locked = locked, !.keys["|camA"] = keysA,
                      !.pbMin = pbMin, !.pbMax = pbMax,
                      !.near["|camA|camAShape"] = near, !.far["|camA|camAShape"] = far,
                      !.version = version]

CameraScenes ==
    { Scene(PerCamera, {}, HandleKeys, Frame(ExpMin), Frame(ExpMax),
            DefaultNear, DefaultFar, Version(RequiredMajor)),
      Scene(SharedWithPersp, {}, {}, Frame(ExpMin), Frame(ExpMax),
            NearMax, FarMin, Version(2024)),
      Scene(TwoOnOne, {"|ip2->ip2Shape"}, KeysWithinTolerance, Frame(ExpMin), Frame(ExpMax),
            NearMax + 1, FarMin,
            << [isInt |-> FALSE, val |-> 0], [isInt |-> FALSE, val |-> 0] >>),
      [Scene({}, {}, KeysOutsideTolerance, Frame(ExpMin), Frame(ExpMax),
             NearMax, FarMin - 1, << >>)
         EXCEPT !.frozen = { <<"|camB|camBShape", "imagePlane">> }],
      [Scene(PerCamera, {"|ip2->ip2Shape"}, HandleKeys, Frame(ExpMin) + HalfFrame,
             Frame(ExpMax), DefaultNear, DefaultFar, Version(RequiredMajor))
         EXCEPT !.frozen = { <<"|camA|camAShape", "nearClipPlane">> }],
      Scene({}, {}, HandleKeys, Frame(ExpMin), Frame(ExpMax) + HalfFrame,
            DefaultNear, DefaultFar, Version(RequiredMajor)),
      [Scene({}, {}, KeysPreOnly, Frame(90), Frame(150),
             50, DefaultFar, Version(RequiredMajor))
         EXCEPT !.unreadable = {"|camB|camBShape"},
                !.near["|camB|camBShape"] = NearMax + 1],
      Scene({}, {}, KeysShotOnly, Frame(ExpMin), Frame(ExpMax),
            DefaultNear, DefaultFar, Version(RequiredMajor)) }

\* a control is selected: it is the target, the cameras are not
SelectionScenes ==
    { [BaseScene EXCEPT !.conn = {}, !.sel = {"|rig:ctrl"}, !.keys["|rig:ctrl"] = HandleKeys,
                        !.keys["|camA"] = {}],
      [BaseScene EXCEPT !.conn = {}, !.sel = {"|rig:ctrl"}] }

\* camB carries a second camera shape, and the image plane is on that one
TwoShapeScenes ==
    { [BaseScene EXCEPT !.nodes = @ \cup {"|camB|camBShape2"},
                        !.conn = { <<"|ip1", "|camB|camBShape2">> }] }

\* scenes with the default camera only
BareScenes ==
    { [BaseScene EXCEPT !.nodes = { "|persp", "|persp|perspShape", "|rig:ctrl" },
                        !.conn = {}, !.keys = NoKeys],
      [BaseScene EXCEPT !.nodes = { "|persp", "|persp|perspShape", "|ip1" },
                        !.conn = { <<"|ip1", "|persp|perspShape">> }, !.keys = NoKeys] }

InitScenes == CameraScenes \cup SelectionScenes \cup BareScenes \cup TwoShapeScenes

-----------------------------------------------------------------------------
(* Inputs *)

HostError == "host call failed"

NoRaise == [c \in CheckSet |-> ""]

\* which run() calls raise during one handler invocation: none, one, or all
RaiseInputs ==
    { NoRaise, [c \in CheckSet |-> HostError] }
    \cup { [NoRaise EXCEPT ![c] = HostError] : c \in CheckSet }

-----------------------------------------------------------------------------
(* State machine *)

NoLast ==
    [name |-> "", check |-> "", ran |-> << >>, raised |-> NoRaise,
     fixCalled |-> FALSE, fixRaised |-> "", button |-> FALSE,
     cam |-> "", failed |-> {}]

NoWindow == 0

Init ==
    /\ scene \in InitScenes
    /\ issues = [c \in CheckSet |-> NoIssue]
    /\ rows = [c \in CheckSet |-> [status |-> Dash, count |-> Dash, fix |-> Dash]]
    /\ header = _refresh_header([c \in CheckSet |-> NoIssue])
    /\ detail = [msg |-> Text("Select a check and run it."), sev |-> "", nodes |-> << >>]
    /\ fixEnabled = FALSE
    /\ selEnabled = FALSE
    /\ current = CheckIds[1]
    /\ logged = << >>
    /\ last = NoLast
    /\ steps = 0
    /\ win = [cur |-> NoWindow, created |-> 0, visible |-> {}, error |-> FALSE]

\* the detail panel and the buttons after _render_details(issue)
Rendered(issue) ==
    LET d == _render_details(issue)
    IN /\ detail' = [msg |-> d.msg, sev |-> d.sev, nodes |-> d.nodes]
       /\ fixEnabled' = d.fix
       /\ selEnabled' = d.sel

\* _on_run_all
RunAll ==
    /\ steps < MaxSteps
    /\ \E exc \in RaiseInputs :
         \E st \in { RunAllLoop([issues |-> issues, rows |-> rows,
                                  log |-> << Line("Running all checks...", "", "", 0, "") >>],
                                 scene, exc) } :
            /\ issues' = st.issues
            /\ rows' = st.rows
            /\ logged' = Append(st.log, Line("Done.", "", "", 0, ""))
            /\ header' = _refresh_header(st.issues)
            /\ Rendered(st.issues[current])
            /\ last' = [NoLast EXCEPT !.name = "RunAll", !.check = current,
                                      !.ran = st.ran,
                                      !.raised = [c \in CheckSet |->
                                          IF c \in Range(st.ran) THEN exc[c] ELSE ""]]
    /\ scene' = SceneAfterRuns(RunAllOrder, 1, scene)
    /\ steps' = steps + 1
    /\ UNCHANGED <<current, win>>

\* _on_run_selected
RunSelected ==
    /\ steps < MaxSteps
    /\ \E exc \in RaiseInputs :
         /\ \A c \in CheckSet \ {current} : exc[c] = ""
         /\ \E r \in { _run_check([issues |-> issues, rows |-> rows], current, scene, exc) } :
               /\ issues' = r.issues
               /\ rows' = r.rows
               /\ logged' = << Line("Running: {title} ...", "", Title(current), 0, ""),
                               IF r.issue.severity = "OK"
                               THEN Line("OK", "", "", 0, "")
                               ELSE Line("{severity}: {n} item(s)", r.issue.severity, "",
                                         Len(r.issue.nodes), "") >>
               /\ header' = _refresh_header(r.issues)
               /\ Rendered(r.issue)
               /\ last' = [NoLast EXCEPT !.name = "RunSelected", !.check = current,
                                         !.ran = <<current>>, !.raised = exc]
    /\ scene' = SceneAfterRun(current, scene)
    /\ steps' = steps + 1
    /\ UNCHANGED <<current, win>>

\* _on_fix_selected
FixSelected ==
    /\ steps < MaxSteps
    /\ steps' = steps + 1
    /\ UNCHANGED <<current, win>>
    /\ LET issue == issues[current]
       IN IF FixRefused(issue)
          THEN /\ UNCHANGED <<scene, issues, rows, header, detail, fixEnabled, selEnabled>>
               /\ logged' = << >>
               /\ last' = [NoLast EXCEPT !.name = "FixSelected", !.check = current,
                                         !.button = fixEnabled]
          ELSE \E f \in { Fix(current, issue, scene) } :
               LET fixing == Line("Fixing: {title} ...", "", Title(current), 0, "")
               IN IF f.raised # ""
                     THEN /\ scene' = f.scene
                          /\ UNCHANGED <<issues, rows, header, detail, fixEnabled, selEnabled>>
                          /\ logged' = << fixing, FixErrorLine(f.raised) >>
                          /\ last' = [NoLast EXCEPT !.name = "FixSelected", !.check = current,
                                                    !.fixCalled = TRUE, !.fixRaised = f.raised,
                                                    !.button = fixEnabled]
                     ELSE \E exc \in RaiseInputs :
                          /\ \A c \in CheckSet \ {current} : exc[c] = ""
                          /\ \E r \in { RerunAfterFix([issues |-> issues, rows |-> rows],
                                                       current, f.scene, exc) } :
                                /\ scene' = SceneAfterRun(current, f.scene)
                                /\ issues' = r.issues
                                /\ rows' = r.rows
                                /\ logged' = << fixing,
                                                IF f.changed THEN Line("Fix applied.", "", "", 0, "")
                                                ELSE Line("No changes made.", "", "", 0, "") >>
                                /\ header' = _refresh_header(r.issues)
                                /\ Rendered(r.issue)
                                /\ last' = [NoLast EXCEPT !.name = "FixSelected",
                                                          !.check = current,
                                                          !.ran = <<current>>, !.raised = exc,
                                                          !.fixCalled = TRUE,
                                                          !.button = fixEnabled]

\* the camera transform create_demo_issues works on
DemoCamera(found) == IF found # "" THEN found ELSE "|validator_demo_cam"

\* variant: create_demo_issues without its clipping edit
DemoSceneKeepsClipping(sc, found, failed) ==
    LET cam_tr == IF found # "" THEN found ELSE "|validator_demo_cam"
        shape == IF found # "" THEN CHOOSE x \in ChildrenOf(found) \cap sc.nodes : TRUE
                 ELSE "|validator_demo_cam|validator_demo_camShape"
        made == sc.nodes \cup {"|bad#name@NODE", cam_tr, shape}
        plane == { d \in sc.conn : d[2] = shape } = {}
    IN [sc EXCEPT !.nodes = IF plane THEN made \cup {"|ipDemo"} ELSE made,
                  !.conn = IF plane /\ "connectAttr" \notin failed
                           THEN @ \cup { <<"|ipDemo", shape>> } ELSE @]

\* the host calls create_demo_issues makes under try/except: pass
DemoGuardedCalls == { "connectAttr", "setAttr" }

\* the plug a guarded call writes
PlugOf(call) == IF call = "connectAttr" THEN "imagePlane" ELSE "nearClipPlane"

\* the guarded calls that raise on scene sc for the camera found: those
\* writing a frozen plug of its first camera shape (a new camera has none)
DemoFailingCalls(sc, found) ==
    IF found = "" THEN {}
    ELSE { call \in DemoGuardedCalls :
             <<_camera_shape_from_transform(sc, found), PlugOf(call)>> \in sc.frozen }

\* create_demo_issues on scene sc, using the non-default camera cam_tr it
\* found ("" when there is none and it creates validator_demo_cam); failed
\* are the guarded host calls that raise
DemoScene(sc, found, failed) ==
    LET withCube == [sc EXCEPT !.nodes = @ \cup {"|bad#name@NODE"}]
        cam_tr == DemoCamera(found)
        withCam ==
            IF found # "" THEN withCube
            ELSE [withCube EXCEPT
                    !.nodes = @ \cup {"|validator_demo_cam",
                                      "|validator_demo_cam|validator_demo_camShape"}]
        cam_shape == _camera_shape_from_transform(withCam, cam_tr)
        withPlane ==
            IF cam_shape # "" /\ ImagePlaneSources(withCam, cam_shape) = {}
            THEN [withCam EXCEPT !.nodes = @ \cup {"|ipDemo"},
                                 !.conn = IF "connectAttr" \in failed THEN @
                                          ELSE @ \cup { <<"|ipDemo", cam_shape>> }]
            ELSE withCam
    IN IF cam_shape # "" /\ "setAttr" \notin failed
       THEN [withPlane EXCEPT !.near[cam_shape] = 50]
       ELSE withPlane

\* the non-default camera transforms create_demo_issues may find first
DemoCandidates(sc) ==
    { ParentOf(s) : s \in LsCameras(sc) \cap NonDefaultShapes }

\* _on_demo. The host names a second demo image plane differently; the
\* universe holds one, so the action stops where a second would be made.
Demo ==
    /\ steps < MaxSteps
    /\ \E found \in (IF DemoCandidates(scene) = {} THEN {""} ELSE DemoCandidates(scene)) :
         LET makesPlane == "|ipDemo" \in DemoScene(scene, found, {}).nodes \ scene.nodes
             attempted == IF makesPlane THEN DemoGuardedCalls ELSE {"setAttr"}
         IN /\ ("|ipDemo" \in scene.nodes =>
                   DemoScene(scene, found, {}).conn = scene.conn)
            /\ \E failed \in { attempted \cap DemoFailingCalls(scene, found) } :
                  /\ scene' = DemoScene(scene, found, failed)
                  /\ last' = [NoLast EXCEPT !.name = "Demo", !.check = current,
                                            !.cam = DemoCamera(found),
                                            !.failed = failed]
    /\ logged' = << Line("Created demo issues.", "", "", 0, "") >>
    /\ steps' = steps + 1
    /\ UNCHANGED <<issues, rows, header, detail, fixEnabled, selEnabled, current, win>>

\* _on_select_nodes; picked are the items selected in the nodes list
SelectNodes ==
    /\ steps < MaxSteps
    /\ \E picked \in SUBSET Range(detail.nodes) :
         LET selected == IF picked # {} THEN picked ELSE Range(detail.nodes)
             existing == { n \in selected : ObjExists(scene, n) }
         IN IF selected = {}
            THEN /\ UNCHANGED scene
                 /\ logged' = << >>
            ELSE IF existing # {}
            THEN /\ scene' = [scene EXCEPT !.sel = existing]
                 /\ logged' = << Line("Selected {n} node(s) in Maya.", "", "",
                                      Cardinality(existing), "") >>
            ELSE /\ UNCHANGED scene
                 /\ logged' = << Line("Nothing to select.", "", "", 0, "") >>
    /\ last' = [NoLast EXCEPT !.name = "SelectNodes", !.check = current,
                              !.button = selEnabled]
    /\ steps' = steps + 1
    /\ UNCHANGED <<issues, rows, header, detail, fixEnabled, selEnabled, current, win>>

\* the user makes another row current: _on_table_selection_changed
SelectRow(c) ==
    /\ steps < MaxSteps
    /\ c # current
    /\ current' = c
    /\ Rendered(issues[c])
    /\ logged' = << >>
    /\ last' = [NoLast EXCEPT !.name = "SelectRow", !.check = c]
    /\ steps' = steps + 1
    /\ UNCHANGED <<scene, issues, rows, header, win>>

\* the artist deletes a camera in the host while the window is open
HostDelete(cam_tr) ==
    /\ steps < MaxSteps
    /\ ObjExists(scene, cam_tr)
    /\ scene' = DeleteNodes(scene, {cam_tr} \cup ChildrenOf(cam_tr))
    /\ logged' = << >>
    /\ last' = [NoLast EXCEPT !.name = "HostDelete", !.check = current]
    /\ steps' = steps + 1
    /\ UNCHANGED <<issues, rows, header, detail, fixEnabled, selEnabled, current, win>>

\* whether ValidatorWindow (a QDialog) has a method show_docked
HasShowDocked == FALSE

\* run_in_maya.show
Show ==
    /\ steps < MaxSteps
    /\ LET closed == win.visible \ {win.cur}
           new == win.created + 1
       IN win' = IF HasShowDocked
                 THEN [cur |-> new, created |-> new, visible |-> closed \cup {new},
                       error |-> FALSE]
                 ELSE [cur |-> new, created |-> new, visible |-> closed, error |-> TRUE]
    /\ logged' = << >>
    /\ last' = [NoLast EXCEPT !.name = "Show", !.check = current]
    /\ steps' = steps + 1
    /\ UNCHANGED <<scene, issues, rows, header, detail, fixEnabled, selEnabled, current>>

Next ==
    \/ RunAll
    \/ RunSelected
    \/ FixSelected
    \/ Demo
    \/ SelectNodes
    \/ \E c \in CheckSet : SelectRow(c)
    \/ \E n \in {"|camA", "|camB"} : HostDelete(n)
    \/ Show

Spec == Init /\ [][Next]_vars

-----------------------------------------------------------------------------
(* Properties *)

Ran(c) == c \in Range(last.ran)

RunRaised(c) == Ran(c) /\ last.raised[c] # ""

\* C1: when run() raises under _run_check the stored result is an ERROR Issue
\* whose message starts with "Check failed:", with no nodes and fixable
\* False; and in Run All every check after a raising one is still run and
\* has its own result stored.
C1_FailureBecomesErrorIssue ==
    /\ \A c \in CheckSet :
         RunRaised(c) =>
           /\ issues[c].check_id = c
           /\ issues[c].severity = "ERROR"
           /\ issues[c].message.k = "Check failed: "
           /\ issues[c].message.exc = last.raised[c]
           /\ issues[c].nodes = << >>
           /\ issues[c].fixable = FALSE
    /\ last.name = "RunAll" =>
         \A i \in 1..Len(CheckIds), j \in 1..Len(CheckIds) :
           (i < j /\ RunRaised(CheckIds[i])) =>
             /\ Ran(CheckIds[j])
             /\ issues[CheckIds[j]].check_id = CheckIds[j]
             /\ issues[CheckIds[j]] = RunOrFail(CheckIds[j], scene, last.raised)
             /\ (last.raised[CheckIds[j]] = ""
                   => issues[CheckIds[j]].message.k # "Check failed: ")

\* a Run All whose first check raised and whose last check reported cameras
C1_Witness ==
    /\ last.name = "RunAll"
    /\ RunRaised("camera_imageplane")
    /\ ~RunRaised("camera_clipping")
    /\ issues["camera_clipping"].nodes # << >>

HasLineWith(e) == \E i \in 1..Len(logged) : logged[i].exc = e

\* C2 as stated: whenever run() or fix() fails with an exception during
\* Run All, Run Selected or Fix Selected, the message is appended to the log.
C2_EveryFailureIsLogged ==
    /\ \A c \in CheckSet : RunRaised(c) => HasLineWith(last.raised[c])
    /\ last.fixRaised # "" => HasLineWith(last.fixRaised)

\* C2 amended: a failure of fix() is logged with its message; a failure of
\* run() puts its message in the stored result and in no line of the log.
C2_FixFailureLoggedRunFailureStored ==
    /\ last.fixRaised # "" =>
         \E i \in 1..Len(logged) :
            logged[i].k = "ERROR during fix: {e}" /\ logged[i].exc = last.fixRaised
    /\ \A c \in CheckSet :
         RunRaised(c) =>
           /\ issues[c].message.exc = last.raised[c]
           /\ \A i \in 1..Len(logged) : logged[i].exc = ""

\* Fix Selected was pressed on a stale result and fix() raised
C2_Witness ==
    /\ last.name = "FixSelected"
    /\ last.fixRaised = NoObjectMatches
    /\ Len(logged) = 2

\* the table row _set_row_for_issue writes for an issue
RowOf(issue) ==
    [status |-> issue.severity,
     count |-> IF issue.severity = "OK" THEN "0" ELSE Str(Len(issue.nodes)),
     fix |-> IF issue.fixable THEN "Yes" ELSE Dash]

\* the stored result, row and detail panel of the current check show what
\* run() finds in the scene as it is now
ShowsCurrentScene ==
    /\ Ran(current)
    /\ issues[current] = RunOrFail(current, scene, last.raised)
    /\ rows[current] = RowOf(issues[current])
    /\ detail.nodes = (IF issues[current].severity = "OK" THEN << >> ELSE issues[current].nodes)
    /\ detail.sev = issues[current].severity

\* C3 as stated: every Fix Selected that invokes fix() re-runs the check in
\* the same action, so the stored result, row and detail panel reflect the
\* scene after the fix.
C3_EveryFixIsFollowedByRerun ==
    (last.name = "FixSelected" /\ last.fixCalled) => ShowsCurrentScene

\* C3 amended: a Fix Selected whose fix() returns re-runs the check, and the
\* stored result, row and detail panel reflect the scene after the fix; one
\* whose fix() raises re-runs nothing and leaves them as they were.
C3_RerunUnlessFixRaised ==
    [][ (last'.name = "FixSelected" /\ last'.fixCalled /\ steps' = steps + 1) =>
          IF last'.fixRaised = ""
          THEN ShowsCurrentScene'
          ELSE /\ last'.ran = << >>
               /\ UNCHANGED <<issues, rows, header, detail, fixEnabled, selEnabled>> ]_vars

\* a fix deleted an image plane and the re-run found the cameras clean
C3_Witness ==
    /\ last.name = "FixSelected"
    /\ last.fixCalled
    /\ last.fixRaised = ""
    /\ last.button
    /\ issues["camera_imageplane"].severity = "OK"
    /\ "|ip1" \notin scene.nodes

\* C4: Run All runs every check exactly once, in list order, and leaves a
\* stored result for every check id, each produced by that Run All.
C4_RunAllRunsEachCheckOnceInOrder ==
    last.name = "RunAll" =>
      /\ last.ran = << "camera_imageplane", "invalid_naming", "maya_version",
                       "frame_range_handles", "camera_clipping" >>
      /\ \A c \in CheckSet :
           /\ issues[c] # NoIssue
           /\ issues[c].check_id = c
           /\ issues[c] = (IF last.raised[c] # "" THEN FailedIssue(c, last.raised[c])
                           ELSE Run(c, scene))
           /\ rows[c].status = issues[c].severity

\* a Run All without exceptions that found three different problems
C4_Witness ==
    /\ last.name = "RunAll"
    /\ last.raised = NoRaise
    /\ issues["camera_imageplane"].severity = "ERROR"
    /\ issues["maya_version"].severity = "WARN"
    /\ issues["frame_range_handles"].severity = "WARN"

\* the nodes the step removed from the scene
Deleted == scene.nodes \ scene'.nodes

\* the camera shapes under the transforms listed in the issue being fixed
ListedShapes ==
    { s \in scene.nodes : NodeType(s) = "camera"
                          /\ ParentOf(s) \in Range(issues[current].nodes) }

UnlistedShapes ==
    { s \in scene.nodes : NodeType(s) = "camera"
                          /\ ParentOf(s) \notin Range(issues[current].nodes) }

SourcesOf(shapes) == { d[1] : d \in { e \in scene.conn : e[2] \in shapes } }

\* apart from the deleted nodes, the scene is as it was
OnlyDeletion ==
    /\ scene'.nodes \subseteq scene.nodes
    /\ scene'.conn = { d \in scene.conn : d[1] \notin Deleted /\ d[2] \notin Deleted }
    /\ \A n \in Universe \ Deleted : scene'.keys[n] = scene.keys[n]
    /\ \A sh \in CameraShapes \ Deleted :
          scene'.near[sh] = scene.near[sh] /\ scene'.far[sh] = scene.far[sh]
    /\ scene'.sel = scene.sel \ Deleted
    /\ scene'.pbMin = scene.pbMin /\ scene'.pbMax = scene.pbMax
    /\ scene'.version = scene.version

FixStep == last'.name = "FixSelected" /\ last'.fixCalled /\ steps' = steps + 1

C6_FixOnlyOnFixableResult ==
    [][ (last'.name = "FixSelected" /\ steps' = steps + 1) =>
          /\ \A c \in CheckSet \ {"camera_imageplane"} : ~issues[c].fixable
          /\ last'.fixCalled =>
               /\ issues[current] # NoIssue
               /\ issues[current].fixable
               /\ issues[current].nodes # << >>
          /\ current # "camera_imageplane" =>
               /\ ~last'.fixCalled
               /\ logged' = << >>
               /\ UNCHANGED <<scene, issues, rows>> ]_vars

\* Fix Selected was invoked on a non-fixable result that lists nodes
C6_Witness ==
    /\ last.name = "FixSelected"
    /\ ~last.fixCalled
    /\ current # "camera_imageplane"
    /\ issues[current].nodes # << >>

\* C7: Run All and Run Selected leave the host scene as it was; among the
\* window's actions only Fix Selected, Create Demo Issues and Select Nodes
\* change it (the artist's own edits aside).
C7_RunLeavesSceneAlone ==
    [][ /\ (steps' = steps + 1 /\ last'.name \in {"RunAll", "RunSelected"}) => scene' = scene
        /\ scene' # scene =>
             last'.name \in {"FixSelected", "Demo", "SelectNodes", "HostDelete"} ]_vars

\* Run Selected ran the frame range check on a scene with a selection
C7_Witness ==
    /\ last.name = "RunSelected"
    /\ current = "frame_range_handles"
    /\ scene.sel # {}
    /\ issues[current].severity = "WARN"

\* C8: every node in the Issue a run() returned exists in the scene at the
\* moment of that run (the handler's scene after the run).
C8_ReportedNodesExist ==
    \A c \in CheckSet :
       Ran(c) => \A i \in 1..Len(issues[c].nodes) : issues[c].nodes[i] \in scene.nodes

\* a run after the artist deleted a camera still reports the other one
C8_Witness ==
    /\ Ran("camera_imageplane")
    /\ "|camB" \notin scene.nodes
    /\ issues["camera_imageplane"].nodes = << "|camA" >>

\* C9 as stated: run_in_maya.show() closes the window it made before, makes a
\* new one and shows it docked, without error; afterwards exactly one window
\* it created is shown.
C9_ShowLeavesOneWindowShown ==
    last.name = "Show" =>
      /\ ~win.error
      /\ win.cur # NoWindow
      /\ win.visible = {win.cur}

\* the frame range check ran in the last handler and returned normally
FrameRangeRan == Ran("frame_range_handles") /\ last.raised["frame_range_handles"] = ""

\* the targets of the frame range check that exist in the scene
ExistingTargets ==
    { n \in (IF scene.sel # {} THEN scene.sel
             ELSE { ParentOf(s) : s \in { x \in scene.nodes :
                       /\ NodeType(x) = "camera"
                       /\ ~_is_default_maya_camera(ParentOf(x)) } }) : n \in scene.nodes }

\* the existing targets that lack a key exactly at one of the two handles
LackingHandleKey ==
    { n \in ExistingTargets :
        Frame(ShotStart - Handle) \notin scene.keys[n]
          \/ Frame(ShotEnd + Handle) \notin scene.keys[n] }

\* C10 as stated: FrameRangeHandlesCheck.run returns OK iff the playback range
\* equals (shot_start - handle, shot_end + handle) and every existing target
\* has a key at each of the two handle frames; otherwise it returns WARN
\* listing exactly the existing targets that lack one of the two keys.
C10_OkIffRangeAndHandleKeys ==
    FrameRangeRan =>
      LET res == issues["frame_range_handles"]
          rangeEquals == /\ scene.pbMin = Frame(ShotStart - Handle)
                         /\ scene.pbMax = Frame(ShotEnd + Handle)
      IN /\ res.severity = "OK" <=> (rangeEquals /\ LackingHandleKey = {})
         /\ res.severity # "OK" =>
              /\ res.severity = "WARN"
              /\ Range(res.nodes) = LackingHandleKey
              /\ Len(res.nodes) = Cardinality(LackingHandleKey)

\* the playback range starts half a frame late, the cameras are keyed on both
\* handles, and the check returned OK
C10_FractionalRangeReturnsOk ==
    /\ FrameRangeRan
    /\ scene.pbMin = Frame(ShotStart - Handle) + HalfFrame
    /\ scene.pbMax = Frame(ShotEnd + Handle)
    /\ LackingHandleKey = {}
    /\ issues["frame_range_handles"].severity = "OK"

\* a Run All that immediately follows Create Demo Issues, no run() raising
DemoThenRunAll ==
    /\ last.name = "Demo"
    /\ last'.name = "RunAll"
    /\ steps' = steps + 1
    /\ last'.raised = NoRaise

Lists(c, n) == issues'[c].severity # "OK" /\ n \in Range(issues'[c].nodes)

ClippingRan == Ran("camera_clipping") /\ last.raised["camera_clipping"] = ""

\* sorted, without duplicates
StrictlySorted(ns) ==
    \A i \in 1..Len(ns) : \A j \in 1..Len(ns) : i < j => IndexOf(ns[i]) < IndexOf(ns[j])

\* the readable cameras of the scene outside persp/top/front/side
ReadableShotCameras ==
    { s \in scene.nodes : /\ NodeType(s) = "camera"
                          /\ ShortName(ParentOf(s)) \notin DefaultCameraNames
                          /\ s \notin scene.unreadable }

RiskyCameras ==
    { ParentOf(s) : s \in { x \in ReadableShotCameras :
                              scene.near[x] > NearMax \/ scene.far[x] < FarMin } }

\* C12: CameraClippingPlanesCheck.run reports exactly the sorted,
\* duplicate-free transforms of the non-default cameras with readable clip
\* attributes and near > near_max or far < far_min; a camera at both
\* thresholds is not reported; the result is OK iff that set is empty.
C12_ClippingReportsExactlyRiskyCameras ==
    ClippingRan =>
      LET res == issues["camera_clipping"]
      IN /\ Range(res.nodes) = RiskyCameras
         /\ StrictlySorted(res.nodes)
         /\ \A s \in ReadableShotCameras :
               (scene.near[s] = NearMax /\ scene.far[s] = FarMin)
                  => ParentOf(s) \notin Range(res.nodes)
         /\ res.severity = "OK" <=> RiskyCameras = {}
         /\ res.severity \in {"OK", "WARN"}

\* one camera sits on both thresholds and is not reported, and another is
\* reported in the same result
C12_Witness ==
    /\ ClippingRan
    /\ \E s \in ReadableShotCameras : scene.near[s] = NearMax /\ scene.far[s] = FarMin
    /\ issues["camera_clipping"].severity = "WARN"

\* a risky camera whose clip planes cannot be read is left out of a WARN result
C12_UnreadableCameraSkipped ==
    /\ ClippingRan
    /\ scene.unreadable \cap scene.nodes # {}
    /\ issues["camera_clipping"].nodes = << "|camA" >>

\* the invalid naming check ran in the last handler and returned normally
NamingRan == Ran("invalid_naming") /\ last.raised["invalid_naming"] = ""

\* letters, digits, '_' and ':'
NameChars == Letters \cup Digits \cup {"_", ":"}

HasForeignChar(short) == Len(short) = 0 \/ \E i \in 1..Len(short) : short[i] \notin NameChars

BadlyNamed ==
    { n \in scene.nodes : HasForeignChar(ShortName(n)) /\ NodeType(n) # "imagePlane" }

Stored == { c \in CheckSet : issues[c] # NoIssue }

StoredOf(sev) == { c \in Stored : issues[c].severity = sev }

\* C14: after any sequence of UI actions the header is computed from the
\* stored results: with at least one stored, the error, warning and ok counts
\* sum to the number of stored results and each is the number of stored
\* results of that severity; every row with a stored result shows its
\* severity, and the count 0 when OK and len(nodes) otherwise.
C14_HeaderAndRowsFollowStoredResults ==
    /\ Stored # {} =>
         /\ header.k = "counts"
         /\ header.n = Cardinality(Stored)
         /\ header.err = Cardinality(StoredOf("ERROR"))
         /\ header.warn = Cardinality(StoredOf("WARN"))
         /\ header.ok = Cardinality(StoredOf("OK"))
         /\ header.err + header.warn + header.ok = Cardinality(Stored)
    /\ Stored = {} => header.k = "ready"
    /\ \A c \in Stored :
         /\ rows[c].status = issues[c].severity
         /\ rows[c].count = IF issues[c].severity = "OK" THEN "0"
                            ELSE Str(Len(issues[c].nodes))

\* after a Run All and a fix, the header counts no error, some warnings and
\* some ok, and the fixed check's row shows OK with count 0
C14_Witness ==
    /\ last.name = "FixSelected"
    /\ last.fixCalled
    /\ Cardinality(Stored) = Len(CheckIds)
    /\ header.err = 0 /\ header.warn >= 1 /\ header.ok >= 1
    /\ rows["camera_imageplane"] = [status |-> "OK", count |-> "0", fix |-> "Yes"]
    /\ \E c \in Stored : rows[c].count \notin {"0", Dash}

\* the result stored for the current row is non-OK and lists nodes
CurrentHasNodes ==
    /\ issues[current] # NoIssue
    /\ issues[current].severity # "OK"
    /\ issues[current].nodes # << >>

\* C15: after any sequence of UI actions Fix Selected is enabled iff the
\* result stored for the current check is non-OK, fixable and lists nodes,
\* and Select Nodes is enabled iff that result is non-OK and lists nodes;
\* both are disabled when no result is stored for the current check.
C15_ButtonsFollowCurrentResult ==
    /\ fixEnabled <=> (CurrentHasNodes /\ issues[current].fixable)
    /\ selEnabled <=> CurrentHasNodes
    /\ issues[current] = NoIssue => ~fixEnabled /\ ~selEnabled

\* the user moved to the row of a warning that lists nodes and cannot be fixed
C15_Witness ==
    /\ last.name = "SelectRow"
    /\ CurrentHasNodes
    /\ ~issues[current].fixable
    /\ selEnabled
    /\ ~fixEnabled

\* the current row holds a fixable error that lists nodes
C15_FixEnabled == fixEnabled /\ selEnabled /\ issues[current].fixable

\* a Fix Selected step on the image plane check whose stored result is what
\* run() returns for the scene as it is (no scene change since the run), and
\* whose re-run did not raise
FreshFix ==
    /\ FixStep
    /\ current = "camera_imageplane"
    /\ issues[current].severity # "OK"
    /\ issues[current].nodes =
         Sorted({ ParentOf(sh) : sh \in { x \in scene.nodes :
                     /\ NodeType(x) = "camera"
                     /\ ~_is_default_maya_camera(ParentOf(x))
                     /\ \E d \in scene.conn : d[2] = x } })
    /\ last'.raised[current] = ""

\* applying fix once more, to the same issue, on the scene the fix left
SecondFixChangesNothing ==
    LET again == CameraImagePlaneFix(issues[current], scene')
    IN /\ ~again.changed
       /\ again.raised = ""
       /\ again.scene = scene'

\* the first camera shape the host lists under a transform of the scene
FirstShape(cam_tr) ==
    CHOOSE sh \in scene.nodes :
       /\ NodeType(sh) = "camera" /\ ParentOf(sh) = cam_tr
       /\ \A t \in scene.nodes :
            (NodeType(t) = "camera" /\ ParentOf(t) = cam_tr) => IndexOf(sh) <= IndexOf(t)

\* the image planes fix can delete: sources of the first camera shape of a
\* listed transform that the host lets go
Removable ==
    { d[1] : d \in { e \in scene.conn :
                       \E i \in 1..Len(issues[current].nodes) :
                          e[2] = FirstShape(issues[current].nodes[i]) } } \ scene.locked

\* the non-default cameras that keep an image plane fix cannot delete
KeepsPlane ==
    { ParentOf(d[2]) : d \in { e \in scene.conn :
                                 /\ ~_is_default_maya_camera(ParentOf(e[2]))
                                 /\ e[1] \notin Removable } }

\* C16 as stated: when run() returned a non-OK issue and fix(issue) is applied
\* with no scene change in between, an immediate re-run returns OK, and a
\* second fix of the same issue returns False and changes nothing.
C16_FixThenRerunIsOk ==
    [][ FreshFix =>
          /\ issues'[current].severity = "OK"
          /\ SecondFixChangesNothing ]_vars

\* C16, what fix and the re-run do: the re-run lists exactly the cameras that
\* keep an image plane fix did not delete (the plane is on a camera shape
\* other than the first of its transform, or cmds.delete raised) and returns
\* OK iff there is none; a second fix of the same issue returns False and
\* changes nothing.
C16_RerunListsWhatFixDidNotDelete ==
    [][ FreshFix =>
          /\ Range(issues'[current].nodes) = KeepsPlane
          /\ issues'[current].severity = "OK" <=> KeepsPlane = {}
          /\ Deleted = Removable
          /\ SecondFixChangesNothing ]_vars

\* a fix right after Run All deleted the planes of two cameras and the re-run
\* returned OK
C16_FixClearedTwoCameras ==
    /\ steps = 2
    /\ last.name = "FixSelected"
    /\ last.fixCalled
    /\ last.fixRaised = ""
    /\ { "|ip1", "|ip2->ip2Shape" } \cap scene.nodes = {}
    /\ issues["camera_imageplane"].severity = "OK"

\* nothing is locked, the plane is on the second camera shape of camB: a fix
\* right after Run All deleted nothing and the re-run is still an error
C16_SecondShapeKeepsPlane ==
    /\ steps = 2
    /\ last.name = "FixSelected"
    /\ last.fixCalled
    /\ last.raised = NoRaise
    /\ scene.locked = {}
    /\ <<"|ip1", "|camB|camBShape2">> \in scene.conn
    /\ issues["camera_imageplane"].nodes = << "|camB" >>

====
